---- MODULE Spec2Model ----
(***************************************************************************)
(* A model of the banking demo application (main.py): the store helper     *)
(* functions with their try/except/finally connection handling, the       *)
(* login / logout / chat handlers with the client's cookie jar, the relay *)
(* to the conversational backend (chat_with_rasa) and the tracker         *)
(* normalizer (get_tracker).                                              *)
(*                                                                         *)
(* One request is handled at a time.  A handler is split into steps at     *)
(* the points where it waits for something outside the process: the       *)
(* backend's answer, and each phase of a store helper (connect, body,     *)
(* finally).                                                              *)
(***************************************************************************)
EXTENDS Integers, Sequences, FiniteSets, TLC

VARIABLES
    app,            \* "created" | "serving" | "crashed" (startup_event raised)
    tablesExist,    \* store: CREATE TABLE IF NOT EXISTS has been committed
    users,          \* store: rows of table users
    chat_messages,  \* store: rows of table chat_messages, in insertion order
    openConns,      \* store: number of connections currently open
    jar,            \* the client's cookie jar: cookie name -> value
    backendTracker, \* backend: the tracker document it serves
    handler,        \* the handler in progress, or "idle"
    hpc,            \* the handler's position
    req,            \* the request's inputs, as the handler read them
    db,             \* the frame of the store helper being run by the handler
    outbound,       \* calls to the backend issued by the request in progress
    backendResult,  \* what the backend call came back with, [kind |-> "none"] before
    bot_response,   \* chat_with_rasa's local, <<>> while unset, else <<reply>>
    saved,          \* rows the request in progress has committed
    resp,           \* the response handed to the caller, [status |-> 0] before
    session         \* history: "none", then "logged_in" after the last successful
                    \* login and "logged_out" after the last logout

vars == <<app, tablesExist, users, chat_messages, openConns, jar, backendTracker,
          handler, hpc, req, db, outbound, backendResult, bot_response, saved, resp,
          session>>

storeVars == <<tablesExist, users, chat_messages>>

(***************************************************************************)
(* Bounds of the model.                                                    *)
(***************************************************************************)
MaxRows == 2        \* chat requests are accepted while fewer rows are stored
MaxEvents == 2      \* longest raw event sequence of a tracker document

(***************************************************************************)
(* Python values.                                                          *)
(***************************************************************************)
\* dict.get(key, default)
Get(d, key, default) == IF key \in DOMAIN d THEN d[key] ELSE default

\* JSON values whose type matters to the code (slot values)
JNull == [type |-> "null"]
JStr(s) == [type |-> "string", s |-> s]
JNum(n) == [type |-> "number", n |-> n]
JList == [type |-> "array"]

\* A str is modelled as a sequence of one-character strings where the code
\* converts it (the user_id cookie), and as an opaque string elsewhere.
DigitChars == <<"0", "1", "2", "3", "4", "5", "6", "7", "8", "9">>

DigitVal(c) == (CHOOSE i \in 1..10 : DigitChars[i] = c) - 1

IsDigit(c) == \E i \in 1..10 : DigitChars[i] = c

RECURSIVE StrOfNat(_)
StrOfNat(n) == IF n < 10 THEN <<DigitChars[n + 1]>>
               ELSE StrOfNat(n \div 10) \o <<DigitChars[(n % 10) + 1]>>

\* str(n) for an integer n
str(n) == IF n < 0 THEN <<"-">> \o StrOfNat(0 - n) ELSE StrOfNat(n)

RECURSIVE LStrip(_)
LStrip(s) == IF s # <<>> /\ Head(s) = " " THEN LStrip(Tail(s)) ELSE s

RECURSIVE RStrip(_)
RStrip(s) == IF s # <<>> /\ s[Len(s)] = " " THEN RStrip(SubSeq(s, 1, Len(s) - 1)) ELSE s

RECURSIVE NatOfDigits(_)
NatOfDigits(s) == IF s = <<>> THEN 0
                  ELSE 10 * NatOfDigits(SubSeq(s, 1, Len(s) - 1)) + DigitVal(s[Len(s)])

\* int(s): surrounding blanks are stripped, one sign is allowed, the rest must
\* be a non-empty run of digits; anything else raises ValueError.
int(s) ==
    LET t == RStrip(LStrip(s))
        signed == t # <<>> /\ Head(t) \in {"-", "+"}
        digits == IF signed THEN Tail(t) ELSE t
    IN  IF digits = <<>> \/ \E i \in 1..Len(digits) : ~IsDigit(digits[i])
        THEN [raised |-> "ValueError"]
        ELSE [raised |-> "none",
              value |-> IF signed /\ Head(t) = "-" THEN 0 - NatOfDigits(digits)
                        ELSE NatOfDigits(digits)]

\* truthiness of an optional str read with cookies.get: None and "" are falsy
Truthy(cookies, name) == name \in DOMAIN cookies /\ cookies[name] # <<>>

(***************************************************************************)
(* The store helpers: try / except Exception / finally: if conn: close.    *)
(***************************************************************************)
NoFrame == [fn |-> "none", pc |-> "none"]

\* a frame that has just been called
Call(fn, args) ==
    [fn |-> fn, pc |-> "connect", args |-> args, connBound |-> FALSE,
     caught |-> FALSE, pending |-> [kind |-> "return"]]

\* what each helper's `except Exception` clause leaves pending
OnException(fn) ==
    CASE fn \in {"init_db", "populate_users", "save_chat_message"} ->
            [kind |-> "return"]
      [] fn = "authenticate_user" -> [kind |-> "return"]
      [] fn \in {"get_users", "get_chat_history"} ->
            [kind |-> "raise", exc |-> "HTTPException"]

\* the demo users inserted by populate_users, with the ids SERIAL gives them
DemoUsers ==
    { [id |-> 1, username |-> "demo",  password |-> "demo123"],
      [id |-> 2, username |-> "admin", password |-> "admin123"],
      [id |-> 3, username |-> "user1", password |-> "password123"] }

\* conn = get_db_connection(): the store may refuse the connection
DbConnect ==
    /\ db.pc = "connect"
    /\ \/ /\ openConns' = openConns + 1
          /\ db' = [db EXCEPT !.pc = "body", !.connBound = TRUE]
       \/ /\ db' = [db EXCEPT !.pc = "finally", !.caught = TRUE,
                                !.pending = OnException(db.fn)]
          /\ UNCHANGED openConns
    /\ UNCHANGED <<app, storeVars, jar, backendTracker, handler, hpc, req,
                   outbound, backendResult, bot_response, saved, resp, session>>

\* a statement of the body raised (the store went away, a constraint failed):
\* nothing of the transaction is committed
BodyRaises ==
    /\ db' = [db EXCEPT !.pc = "finally", !.caught = TRUE,
                          !.pending = OnException(db.fn)]
    /\ UNCHANGED <<storeVars, saved, session>>

BodyReturns(pending) ==
    db' = [db EXCEPT !.pc = "finally", !.pending = pending]

\* init_db: both CREATE TABLE IF NOT EXISTS statements and the commit
init_db_body ==
    /\ tablesExist' = TRUE
    /\ BodyReturns([kind |-> "return"])
    /\ UNCHANGED <<users, chat_messages, saved>>

\* populate_users: return early when demo exists, else insert the demo users
populate_users_body ==
    IF ~tablesExist THEN BodyRaises
    ELSE IF \E u \in users : u.username = "demo"
    THEN /\ BodyReturns([kind |-> "return"])
         /\ UNCHANGED <<storeVars, saved>>
    ELSE /\ users' = users \cup DemoUsers
         /\ BodyReturns([kind |-> "return"])
         /\ UNCHANGED <<tablesExist, chat_messages, saved>>

\* authenticate_user: exact match of username and password
authenticate_user_body ==
    IF ~tablesExist THEN BodyRaises
    ELSE LET found == {u \in users : /\ u.username = db.args.username
                                     /\ u.password = db.args.password}
         IN  /\ IF found = {}
                THEN BodyReturns([kind |-> "return"])
                ELSE BodyReturns([kind |-> "return",
                                  value |-> CHOOSE u \in found : TRUE])
             /\ UNCHANGED <<storeVars, saved>>

\* the row save_chat_message inserts
ChatRow(user_id, message, response) ==
    [user_id |-> user_id, message |-> message, response |-> response]

\* save_chat_message: INSERT and commit; user_id REFERENCES users(id), and
\* message is NOT NULL
save_chat_message_body ==
    IF \/ ~tablesExist
       \/ db.args.user_id \notin {u.id : u \in users}
       \/ db.args.message = <<>>
    THEN BodyRaises
    ELSE LET row == ChatRow(db.args.user_id, db.args.message[1], db.args.response)
         IN  /\ chat_messages' = Append(chat_messages, row)
             /\ saved' = Append(saved, row)
             /\ BodyReturns([kind |-> "return"])
             /\ UNCHANGED <<tablesExist, users>>

\* get_users: SELECT ... FROM users
get_users_body ==
    IF ~tablesExist THEN BodyRaises
    ELSE /\ BodyReturns([kind |-> "return", value |-> users])
         /\ UNCHANGED <<storeVars, saved>>

\* get_chat_history: SELECT ... FROM chat_messages WHERE user_id = %s
get_chat_history_body ==
    IF ~tablesExist THEN BodyRaises
    ELSE /\ BodyReturns([kind |-> "return",
                         value |-> SelectSeq(chat_messages,
                                     LAMBDA r : r.user_id = db.args.user_id)])
         /\ UNCHANGED <<storeVars, saved>>

\* the statements between the connect and the end of the try block
DbBody ==
    /\ db.pc = "body"
    /\ \/ BodyRaises
       \/ CASE db.fn = "init_db" -> init_db_body
            [] db.fn = "populate_users" -> populate_users_body
            [] db.fn = "authenticate_user" -> authenticate_user_body
            [] db.fn = "save_chat_message" -> save_chat_message_body
            [] db.fn = "get_users" -> get_users_body
            [] db.fn = "get_chat_history" -> get_chat_history_body
    /\ UNCHANGED <<app, openConns, jar, backendTracker, handler, hpc, req,
                   outbound, backendResult, bot_response, resp, session>>

\* faulty variant: the connection is closed at the end of the try block only, so the
\* except path leaves it open
CloseInFinally_OnlyOnSuccess(frame, open) ==
    IF frame.caught THEN open ELSE open - 1

\* conn.close() in the finally clause: the connections open afterwards
CloseInFinally(frame, open) == open - 1

\* finally: if conn: conn.close().  Reading conn when the connect raised is an
\* UnboundLocalError, which replaces whatever was pending.
DbFinally ==
    /\ db.pc = "finally"
    /\ IF db.connBound
       THEN /\ openConns' = CloseInFinally(db, openConns)
            /\ db' = [db EXCEPT !.pc = "returned"]
       ELSE /\ db' = [db EXCEPT !.pc = "returned",
                                !.pending = [kind |-> "raise",
                                             exc |-> "UnboundLocalError"]]
            /\ UNCHANGED openConns
    /\ UNCHANGED <<app, storeVars, jar, backendTracker, handler, hpc, req,
                   outbound, backendResult, bot_response, saved, resp, session>>

Returned == db.pc = "returned"
Raised == Returned /\ db.pending.kind = "raise"

(***************************************************************************)
(* Requests.                                                               *)
(***************************************************************************)
EmptyDict == [k \in {} |-> k]

\* an opaque text as a str: the empty text is the empty str
Text(s) == IF s = "" THEN <<>> ELSE <<s>>

NoResp == [status |-> 0]

NoResult == [kind |-> "none"]

\* the server takes the next request once the previous one has been answered
Ready == app = "serving" /\ hpc = "done"

\* the per-request state of a handler that has just been entered
Enter(name, inputs, calls) ==
    /\ handler' = name
    /\ req' = inputs
    /\ outbound' = calls
    /\ backendResult' = NoResult
    /\ bot_response' = <<>>
    /\ saved' = <<>>

\* the handler answers the caller
Answer(response) ==
    /\ hpc' = "done"
    /\ resp' = response

(***************************************************************************)
(* startup_event: init_db() then populate_users().  An exception leaving   *)
(* either one fails the startup and the application never serves.         *)
(***************************************************************************)
StartupBegin ==
    /\ app = "created" /\ handler = "idle"
    /\ Enter("startup_event", EmptyDict, <<>>)
    /\ hpc' = "init_db"
    /\ db' = Call("init_db", EmptyDict)
    /\ UNCHANGED <<app, storeVars, openConns, jar, backendTracker, resp, session>>

StartupInitReturned ==
    /\ handler = "startup_event" /\ hpc = "init_db" /\ Returned
    /\ IF Raised
       THEN /\ app' = "crashed"
            /\ hpc' = "done"
            /\ UNCHANGED db
       ELSE /\ hpc' = "populate_users"
            /\ db' = Call("populate_users", EmptyDict)
            /\ UNCHANGED app
    /\ UNCHANGED <<storeVars, openConns, jar, backendTracker, handler, req,
                   outbound, backendResult, bot_response, saved, resp, session>>

StartupPopulateReturned ==
    /\ handler = "startup_event" /\ hpc = "populate_users" /\ Returned
    /\ app' = IF Raised THEN "crashed" ELSE "serving"
    /\ hpc' = "done"
    /\ UNCHANGED <<storeVars, openConns, jar, backendTracker, handler, req, db,
                   outbound, backendResult, bot_response, saved, resp, session>>

(***************************************************************************)
(* login and logout                                                        *)
(***************************************************************************)
LoginForms ==
    { [username |-> "demo",  password |-> "demo123"],
      [username |-> "admin", password |-> "admin123"],
      [username |-> "demo",  password |-> "wrong"] }

LoginBegin ==
    /\ Ready
    /\ \E form \in LoginForms :
          /\ Enter("login", form, <<>>)
          /\ db' = Call("authenticate_user", form)
    /\ hpc' = "authenticate_user"
    /\ resp' = NoResp
    /\ UNCHANGED <<app, storeVars, openConns, jar, backendTracker, session>>

\* the cookies login sets for the authenticated user
SessionCookies(user) ==
    [user_id |-> str(user.id), username |-> Text(user.username)]

LoginReturned ==
    /\ handler = "login" /\ hpc = "authenticate_user" /\ Returned
    /\ IF Raised
       THEN /\ Answer([status |-> 500])
            /\ UNCHANGED <<jar, session>>
       ELSE IF "value" \in DOMAIN db.pending
       THEN /\ jar' = SessionCookies(db.pending.value)
            /\ session' = "logged_in"
            /\ Answer([status |-> 302, location |-> "/chat"])
       ELSE /\ Answer([status |-> 400])
            /\ UNCHANGED <<jar, session>>
    /\ UNCHANGED <<app, storeVars, openConns, backendTracker, handler, req, db,
                   outbound, backendResult, bot_response, saved>>

\* logout deletes both cookies
logout ==
    /\ Ready
    /\ Enter("logout", EmptyDict, <<>>)
    /\ db' = NoFrame
    /\ jar' = EmptyDict
    /\ session' = "logged_out"
    /\ Answer([status |-> 302, location |-> "/"])
    /\ UNCHANGED <<app, storeVars, openConns, backendTracker>>

(***************************************************************************)
(* chat_with_rasa                                                          *)
(***************************************************************************)
\* cookies a client may send without having been given them by login
ForgedCookies ==
    { [user_id |-> <<"0", "2">>, username |-> <<"admin">>],
      [user_id |-> <<"a", "b">>, username |-> <<"demo">>],
      [user_id |-> <<"7">>, username |-> <<"demo">>],
      [user_id |-> <<>>, username |-> <<"demo">>],
      [user_id |-> <<"1">>] }

\* request bodies: not a JSON object (request.json() or data.get raises), or a
\* JSON object with or without "message"; <<>> is a JSON null
ChatBodies ==
    { [type |-> "malformed"],
      [type |-> "object", fields |-> EmptyDict],
      [type |-> "object", fields |-> [message |-> <<"hello">>]],
      [type |-> "object", fields |-> [message |-> <<>>]] }

fallback == "I'm sorry, I didn't understand that."

\* reply segments the backend may send
Segments == { EmptyDict, [text |-> "hi there"], [text |-> "more"] }

\* bodies of a backend response: not JSON, or a JSON value
WebhookBodies ==
    { [type |-> "malformed"], [type |-> "null"],
      [type |-> "object", size |-> 0], [type |-> "object", size |-> 1] }
    \cup { [type |-> "array", items |-> items] :
             items \in {<<>>} \cup { <<s>> : s \in Segments }
                       \cup { <<s, t>> : s \in Segments, t \in {[text |-> "more"]} } }

\* what the call to the backend may come back with: no response in time, or a
\* response with a status and a body
ChatBackendResults ==
    { [kind |-> "timeout"] }
    \cup { [kind |-> "response", status |-> 500, body |-> b] :
             b \in { [type |-> "malformed"], [type |-> "array", items |-> <<>>] } }
    \cup { [kind |-> "response", status |-> 200, body |-> b] : b \in WebhookBodies }

\* faulty variant: raise_for_status() is not called
CallRaises_NoStatusCheck(result) ==
    \/ result.kind = "timeout"
    \/ result.body.type = "malformed"

\* lines 173-175: client.post times out, raise_for_status() raises on an error
\* status, response.json() raises on a body that is not JSON
CallRaises(result) ==
    \/ result.kind = "timeout"
    \/ result.status >= 400
    \/ result.body.type = "malformed"

\* Python truthiness of a decoded JSON body
TruthyJson(v) ==
    CASE v.type = "null" -> FALSE
      [] v.type = "object" -> v.size > 0
      [] v.type = "array" -> v.items # <<>>

\* faulty variant: the texts of all segments are used, the last one winning
ExtractReply_LastSegment(rasa_response) ==
    IF ~TruthyJson(rasa_response)
    THEN [raised |-> "none", value |-> fallback]
    ELSE IF rasa_response.type = "array"
    THEN [raised |-> "none",
          value |-> Get(rasa_response.items[Len(rasa_response.items)], "text", fallback)]
    ELSE [raised |-> "KeyError"]

\* lines 178-180: the reply is the first segment's text, or the fallback;
\* indexing a non-empty JSON object with 0 raises KeyError
ExtractReply(rasa_response) ==
    IF ~TruthyJson(rasa_response)
    THEN [raised |-> "none", value |-> fallback]
    ELSE IF rasa_response.type = "array"
    THEN [raised |-> "none", value |-> Get(rasa_response.items[1], "text", fallback)]
    ELSE [raised |-> "KeyError"]

\* faulty variant: `and` for `or`: one cookie is enough
NotAuthenticated_And(cookies) ==
    ~Truthy(cookies, "user_id") /\ ~Truthy(cookies, "username")

\* line 163
NotAuthenticated(cookies) ==
    ~Truthy(cookies, "user_id") \/ ~Truthy(cookies, "username")

\* faulty variant: the except clause sends the request once more before giving up
ExceptClause_Retry ==
    IF Len(outbound) = 1
    THEN /\ outbound' = Append(outbound, outbound[1])
         /\ hpc' = "await_backend"
         /\ UNCHANGED resp
    ELSE /\ Answer([status |-> 500])
         /\ UNCHANGED outbound

\* lines 187-188 and 277-278: except Exception: raise HTTPException(500)
ExceptClause ==
    /\ Answer([status |-> 500])
    /\ UNCHANGED outbound

\* the request chat_with_rasa posts to the backend (lines 172-173)
WebhookCall(user_id, message) ==
    [method |-> "POST", path |-> "/webhooks/rest/webhook",
     json |-> [sender |-> user_id, message |-> message]]

\* lines 161-173: the cookie check, the request body, and the call to the
\* backend.  message is <<text>>, or <<>> for a JSON null.
ChatBegin ==
    /\ Ready
    /\ Len(chat_messages) < MaxRows
    /\ \E forged \in BOOLEAN, data \in ChatBodies :
       \E cookies \in IF forged THEN ForgedCookies ELSE {jar} :
          LET inputs == [cookies |-> cookies, forged |-> forged, data |-> data,
                         message |-> <<>>] IN
          IF NotAuthenticated(cookies)
          THEN /\ Enter("chat_with_rasa", inputs, <<>>)
               /\ Answer([status |-> 401])
          ELSE IF data.type = "malformed"
          THEN /\ Enter("chat_with_rasa", inputs, <<>>)
               /\ Answer([status |-> 500])
          ELSE LET message == Get(data.fields, "message", <<"">>) IN
               /\ Enter("chat_with_rasa", [inputs EXCEPT !.message = message],
                        <<WebhookCall(cookies.user_id, message)>>)
               /\ hpc' = "await_backend"
               /\ resp' = NoResp
    /\ db' = NoFrame
    /\ UNCHANGED <<app, storeVars, openConns, jar, backendTracker, session>>

\* lines 174-183: the backend's answer, the reply, the conversion of the
\* sender id, and the call of save_chat_message.  Every exception raised here
\* reaches the handler's except clause.
ChatBackendReturns ==
    /\ handler = "chat_with_rasa" /\ hpc = "await_backend"
    /\ \E result \in ChatBackendResults :
          /\ backendResult' = result
          /\ IF CallRaises(result)
             THEN /\ ExceptClause
                  /\ UNCHANGED <<bot_response, db>>
             ELSE LET reply == ExtractReply(result.body)
                      user_id == int(req.cookies.user_id)
                  IN  IF reply.raised # "none"
                      THEN /\ ExceptClause
                           /\ UNCHANGED <<bot_response, db>>
                      ELSE IF user_id.raised # "none"
                      THEN /\ bot_response' = <<reply.value>>
                           /\ ExceptClause
                           /\ UNCHANGED db
                      ELSE /\ bot_response' = <<reply.value>>
                           /\ db' = Call("save_chat_message",
                                         [user_id |-> user_id.value,
                                          message |-> req.message,
                                          response |-> reply.value])
                           /\ hpc' = "save_chat_message"
                           /\ UNCHANGED <<resp, outbound>>
    /\ UNCHANGED <<app, storeVars, openConns, jar, backendTracker, handler, req,
                   saved, session>>

\* lines 183-188: save_chat_message has returned or raised
ChatSaveReturned ==
    /\ handler = "chat_with_rasa" /\ hpc = "save_chat_message" /\ Returned
    /\ IF Raised
       THEN ExceptClause
       ELSE /\ Answer([status |-> 200, response |-> bot_response[1]])
            /\ UNCHANGED outbound
    /\ UNCHANGED <<app, storeVars, openConns, jar, backendTracker, handler, req, db,
                   backendResult, bot_response, saved, session>>

(***************************************************************************)
(* get_users and get_chat_history                                          *)
(***************************************************************************)
UsersBegin ==
    /\ Ready
    /\ Enter("get_users", EmptyDict, <<>>)
    /\ db' = Call("get_users", EmptyDict)
    /\ hpc' = "get_users"
    /\ resp' = NoResp
    /\ UNCHANGED <<app, storeVars, openConns, jar, backendTracker, session>>

HistoryBegin ==
    /\ Ready
    /\ \E user_id \in {1, 2} :
          /\ Enter("get_chat_history", [user_id |-> user_id], <<>>)
          /\ db' = Call("get_chat_history", [user_id |-> user_id])
    /\ hpc' = "get_chat_history"
    /\ resp' = NoResp
    /\ UNCHANGED <<app, storeVars, openConns, jar, backendTracker, session>>

\* the rows are returned, or the exception leaves as HTTP 500
QueryReturned ==
    /\ handler \in {"get_users", "get_chat_history"} /\ hpc = handler /\ Returned
    /\ IF Raised
       THEN Answer([status |-> 500])
       ELSE Answer([status |-> 200, rows |-> db.pending.value])
    /\ UNCHANGED <<app, storeVars, openConns, jar, backendTracker, handler, req, db,
                   outbound, backendResult, bot_response, saved, session>>

(***************************************************************************)
(* get_tracker                                                             *)
(***************************************************************************)
\* raw tracker events: each of event, text and timestamp may be absent
TrackerEvents ==
    { [k \in D |-> CASE k = "event" -> discriminator
                     [] k = "text" -> "hi"
                     [] k = "timestamp" -> 7] :
        D \in SUBSET {"event", "text", "timestamp"},
        discriminator \in {"user", "bot", "action"} }

RECURSIVE SeqsUpTo(_, _)
SeqsUpTo(S, n) ==
    IF n = 0 THEN {<<>>}
    ELSE LET shorter == SeqsUpTo(S, n - 1)
         IN  shorter \cup { Append(q, x) : q \in {t \in shorter : Len(t) = n - 1}, x \in S }

SlotKeys == {"name", "flow_hashes"}

SlotValues == {JNull, JStr(""), JNum(0), JStr("Alice"), JList}

SlotMaps == UNION { [D -> SlotValues] : D \in SUBSET SlotKeys }

\* tracker documents the backend may hold: events and slots may be absent
TrackerDocs ==
    LET E == SeqsUpTo(TrackerEvents, MaxEvents) IN
    { [events |-> e, slots |-> m] : e \in E, m \in SlotMaps }
    \cup { [events |-> e] : e \in E } \cup { [slots |-> m] : m \in SlotMaps }
    \cup { EmptyDict }

\* the query strings a caller may give
TrackerQueries ==
    { EmptyDict } \cup { [include_events |-> v] : v \in {"", "ALL", "AFTER_RESTART"} }

\* faulty variant: the parameter is always sent
Params_Always(include_events) == [include_events |-> include_events]

\* line 233
Params(include_events) ==
    IF include_events # "" THEN [include_events |-> include_events] ELSE EmptyDict

\* the request get_tracker sends to the backend (lines 235-239)
TrackerCall(conversation_id, params) ==
    [method |-> "GET", path |-> <<"/conversations/", conversation_id, "/tracker">>,
     params |-> params]

\* faulty variant: an entry of type "event" gets no timestamp of its own
HistoryEntry_ZeroTimestamp(event) ==
    IF "event" \in DOMAIN event /\ event["event"] \in {"user", "bot"}
    THEN [type |-> event["event"], text |-> Get(event, "text", ""),
          timestamp |-> Get(event, "timestamp", 0)]
    ELSE [type |-> "event", text |-> Get(event, "event", "unknown_event"),
          timestamp |-> 0]

\* lines 248-265: one history entry for one raw event
HistoryEntry(event) ==
    IF "event" \in DOMAIN event /\ event["event"] = "user"
    THEN [type |-> "user", text |-> Get(event, "text", ""),
          timestamp |-> Get(event, "timestamp", 0)]
    ELSE IF "event" \in DOMAIN event /\ event["event"] = "bot"
    THEN [type |-> "bot", text |-> Get(event, "text", ""),
          timestamp |-> Get(event, "timestamp", 0)]
    ELSE [type |-> "event", text |-> Get(event, "event", "unknown_event"),
          timestamp |-> Get(event, "timestamp", 0)]

RECURSIVE ConversationHistory_MessagesOnly(_, _)
\* faulty variant: only user and bot events get an entry
ConversationHistory_MessagesOnly(conversation_history, events) ==
    IF events = <<>> THEN conversation_history
    ELSE IF "event" \in DOMAIN Head(events) /\ Head(events)["event"] \in {"user", "bot"}
    THEN ConversationHistory_MessagesOnly(
             Append(conversation_history, HistoryEntry(Head(events))), Tail(events))
    ELSE ConversationHistory_MessagesOnly(conversation_history, Tail(events))

RECURSIVE ConversationHistory(_, _)
\* lines 244-265: the loop appends one entry per event, in order
ConversationHistory(conversation_history, events) ==
    IF events = <<>> THEN conversation_history
    ELSE ConversationHistory(Append(conversation_history, HistoryEntry(Head(events))),
                             Tail(events))

\* faulty variant: `if v` for `v is not None and v != ""`: every falsy value is dropped
FilteredSlots_Falsy(slots) ==
    [k \in {k \in DOMAIN slots : slots[k] \notin {JNull, JStr(""), JNum(0)}
                                  /\ k # "flow_hashes"}
       |-> slots[k]]

\* line 268
FilteredSlots(slots) ==
    [k \in {k \in DOMAIN slots : slots[k] # JNull /\ slots[k] # JStr("") /\ k # "flow_hashes"}
       |-> slots[k]]

\* lines 243-275: the answer built from the tracker document
TrackerAnswer(conversation_id, tracker_data) ==
    [status |-> 200,
     conversation_id |-> conversation_id,
     conversation_history |-> ConversationHistory(<<>>, Get(tracker_data, "events", <<>>)),
     slots |-> FilteredSlots(Get(tracker_data, "slots", EmptyDict)),
     raw_tracker |-> tracker_data]

\* lines 230-239: the default of include_events, the params, the call
TrackerBegin ==
    /\ Ready
    /\ \E query \in TrackerQueries :
          LET include_events == Get(query, "include_events", "ALL") IN
          Enter("get_tracker",
                [conversation_id |-> "conv1", query |-> query,
                 include_events |-> include_events],
                <<TrackerCall("conv1", Params(include_events))>>)
    /\ hpc' = "await_backend"
    /\ resp' = NoResp
    /\ db' = NoFrame
    /\ UNCHANGED <<app, storeVars, openConns, jar, backendTracker, session>>

\* what the call to the backend may come back with, given the document it holds
TrackerBackendResults ==
    { [kind |-> "timeout"],
      [kind |-> "response", status |-> 500, body |-> [type |-> "malformed"]],
      [kind |-> "response", status |-> 200, body |-> [type |-> "malformed"]],
      [kind |-> "response", status |-> 200,
       body |-> [type |-> "object", value |-> backendTracker]] }

\* lines 240-278: the backend's answer; any failure leaves as HTTP 500
TrackerBackendReturns ==
    /\ handler = "get_tracker" /\ hpc = "await_backend"
    /\ \E result \in TrackerBackendResults :
          /\ backendResult' = result
          /\ IF CallRaises(result)
             THEN ExceptClause
             ELSE /\ Answer(TrackerAnswer(req.conversation_id, result.body.value))
                  /\ UNCHANGED outbound
    /\ UNCHANGED <<app, storeVars, openConns, jar, backendTracker, handler, req, db,
                   bot_response, saved, session>>

(***************************************************************************)
(* Specifications.                                                         *)
(***************************************************************************)
\* the tracker of the backend in Spec: a fixed document
ExampleTracker ==
    [events |-> << [event |-> "user", text |-> "hi", timestamp |-> 1],
                   [event |-> "action", timestamp |-> 2] >>,
     slots |-> [name |-> JStr("Alice"), balance |-> JStr(""),
                flow_hashes |-> JList, age |-> JNum(0)]]

\* The process has been created and startup_event has not run.  The store is
\* either fresh or has been set up by an earlier run.
Init ==
    /\ app = "created"
    /\ \/ tablesExist = FALSE /\ users = {}
       \/ tablesExist = TRUE /\ users = DemoUsers
    /\ chat_messages = <<>>
    /\ openConns = 0
    /\ jar = EmptyDict
    /\ backendTracker = ExampleTracker
    /\ handler = "idle"
    /\ hpc = "none"
    /\ req = EmptyDict
    /\ db = NoFrame
    /\ outbound = <<>>
    /\ backendResult = NoResult
    /\ bot_response = <<>>
    /\ saved = <<>>
    /\ resp = NoResp
    /\ session = "none"

Next ==
    \/ StartupBegin \/ StartupInitReturned \/ StartupPopulateReturned
    \/ DbConnect \/ DbBody \/ DbFinally
    \/ LoginBegin \/ LoginReturned \/ logout
    \/ ChatBegin \/ ChatBackendReturns \/ ChatSaveReturned
    \/ UsersBegin \/ HistoryBegin \/ QueryReturned
    \/ TrackerBegin \/ TrackerBackendReturns

Spec == Init /\ [][Next]_vars

\* The application is serving after a successful startup, and the backend
\* holds any tracker document.
InitTracker ==
    /\ app = "serving"
    /\ tablesExist = TRUE /\ users = DemoUsers
    /\ chat_messages = <<>>
    /\ openConns = 0
    /\ jar = EmptyDict
    /\ backendTracker \in TrackerDocs
    /\ handler = "startup_event"
    /\ hpc = "done"
    /\ req = EmptyDict
    /\ db = [Call("populate_users", EmptyDict) EXCEPT !.pc = "returned", !.connBound = TRUE]
    /\ outbound = <<>>
    /\ backendResult = NoResult
    /\ bot_response = <<>>
    /\ saved = <<>>
    /\ resp = NoResp
    /\ session = "none"

NextTracker == TrackerBegin \/ TrackerBackendReturns

SpecTracker == InitTracker /\ [][NextTracker]_vars

(***************************************************************************)
(* Properties.                                                             *)
(***************************************************************************)
InChat == handler = "chat_with_rasa"
InTracker == handler = "get_tracker"

\* the call to the backend has come back, and it failed: no response in time,
\* an error status, or a body that is not JSON
BackendCallFailed ==
    \/ backendResult.kind = "timeout"
    \/ /\ backendResult.kind = "response"
       /\ \/ backendResult.status # 200
          \/ backendResult.body.type = "malformed"

BackendCallSucceeded == backendResult.kind = "response" /\ ~BackendCallFailed

\* C1: in the relay, once the backend call has succeeded and a reply has been
\* computed, every failure of the persistence step (opening the connection,
\* the INSERT or commit, converting the sender id) is swallowed: the caller
\* receives the computed reply as a success response.
C1_PersistenceFailureSwallowed ==
    (InChat /\ hpc = "done" /\ bot_response # <<>>)
        => /\ resp.status = 200
           /\ "response" \in DOMAIN resp
           /\ resp.response = bot_response[1]

\* C2, in every state: when the relay's call to the backend has failed, the
\* request has ended with HTTP 500 and no reply, no store helper has been
\* called and no row has been written.
C2_FailedCallState ==
    (InChat /\ BackendCallFailed)
        => /\ hpc = "done"
           /\ resp = [status |-> 500]
           /\ bot_response = <<>>
           /\ saved = <<>>
           /\ db = NoFrame

\* C2, in every step: chat_messages changes only by the relay appending one
\* row after its call to the backend has succeeded and a reply is at hand.
C2_RowOnlyAfterReply ==
    (chat_messages' # chat_messages)
        => /\ InChat /\ BackendCallSucceeded /\ bot_response # <<>>
           /\ Len(chat_messages') = Len(chat_messages) + 1
           /\ SubSeq(chat_messages', 1, Len(chat_messages)) = chat_messages

\* C2: a failed backend call gives the caller HTTP 500 with no reply and
\* writes no row; a row is inserted into chat_messages only after a reply has
\* been obtained.
C2_BackendFailure == [](C2_FailedCallState) /\ [][C2_RowOnlyAfterReply]_vars

C2_Witness ==
    /\ InChat /\ hpc = "done"
    /\ backendResult.kind = "response" /\ backendResult.status = 500
    /\ backendResult.body.type = "array"
    /\ Len(outbound) = 1

\* the reply C3 states for a decoded array of reply segments
FirstSegmentText(items) ==
    IF items = <<>> \/ "text" \notin DOMAIN items[1] THEN fallback ELSE items[1]["text"]

\* the message as the request body gave it ("" when it gave none)
MessageReceived ==
    IF "message" \in DOMAIN req.data.fields THEN req.data.fields["message"][1] ELSE ""

\* C3: for a successful backend response the reply is the text of the first
\* segment only, or the fixed fallback when there is no segment or the first
\* one has no text; the row persisted is (sender id, message as received,
\* that reply), and the reply returned to the caller is the persisted one.
C3_ReplyAndRow ==
    (InChat /\ BackendCallSucceeded)
        => /\ (backendResult.body.type = "array" /\ bot_response # <<>>)
                 => bot_response[1] = FirstSegmentText(backendResult.body.items)
           /\ (backendResult.body.type = "array" /\ Len(backendResult.body.items) > 0)
                 => bot_response # <<>>
           /\ Len(saved) <= 1
           /\ saved # <<>>
                 => /\ int(outbound[1].json.sender) =
                          [raised |-> "none", value |-> saved[1].user_id]
                    /\ ~req.forged
                          => /\ str(saved[1].user_id) = outbound[1].json.sender
                             /\ \E u \in users : /\ u.id = saved[1].user_id
                                                 /\ Text(u.username) = req.cookies.username
                    /\ saved[1].message = MessageReceived
                    /\ saved[1].response = bot_response[1]
                    /\ chat_messages[Len(chat_messages)] = saved[1]
           /\ resp.status = 200
                 => /\ resp.response = bot_response[1]
                    /\ saved # <<>> => resp.response = saved[1].response

C3_Witness ==
    /\ InChat /\ hpc = "done" /\ resp.status = 200
    /\ ~req.forged
    /\ backendResult.body.type = "array" /\ Len(backendResult.body.items) = 2
    /\ saved = <<ChatRow(2, "hello", "hi there")>>

\* C6: a relay or tracker request issues at most one call to the backend:
\* after a failed call the request has ended in failure with that one call,
\* and after a successful call no further call is made.
C6_AtMostOneCall ==
    /\ Len(outbound) <= 1
    /\ outbound # <<>> => (InChat \/ InTracker)
    /\ ((InChat \/ InTracker) /\ backendResult.kind # "none")
          => /\ Len(outbound) = 1
             /\ BackendCallFailed => (hpc = "done" /\ resp.status = 500)

C6_Witness ==
    /\ InTracker /\ hpc = "done" /\ resp.status = 500
    /\ backendResult.kind = "timeout" /\ Len(outbound) = 1

\* C7: every store connection opened by a store helper is closed when the
\* helper ends, whether it returned, returned early or raised after the
\* connect; no connection is open once the request has been answered.
C7_ConnectionsReleased ==
    /\ openConns \in {0, 1}
    /\ db.pc \in {"none", "connect", "returned"} => openConns = 0
    /\ hpc \in {"none", "done"} => openConns = 0

C7_Witness ==
    /\ db.fn = "save_chat_message" /\ db.pc = "returned"
    /\ db.connBound /\ db.caught
    /\ openConns = 0

\* the chat request was turned away before anything was sent or written
ChatRejected ==
    /\ hpc = "done"
    /\ resp = [status |-> 401]
    /\ outbound = <<>>
    /\ saved = <<>>
    /\ db = NoFrame

\* C10: a chat request lacking the user_id or the username cookie is answered
\* 401 with no call to the backend and no write to the store; so is every
\* chat request of a client that sends the cookies it was given, when its last
\* logout came after its last successful login or it never logged in.
C10_NoSessionNoRelay ==
    InChat
        => /\ ("user_id" \notin DOMAIN req.cookies \/ "username" \notin DOMAIN req.cookies)
                 => ChatRejected
           /\ (~req.forged /\ session # "logged_in") => ChatRejected

C10_Witness ==
    /\ InChat /\ ~req.forged /\ session = "logged_out"
    /\ Len(chat_messages) > 0
    /\ ChatRejected

\* the raw events and slots get_tracker read from the document it was sent
RawEventsRead == Get(backendResult.body.value, "events", <<>>)
RawSlotsRead == Get(backendResult.body.value, "slots", EmptyDict)

Answered200 == InTracker /\ hpc = "done" /\ resp.status = 200

\* C4: conversation_history has one entry per raw event, in the same order,
\* and entry i has type "user" iff event i's discriminator is "user", "bot"
\* iff it is "bot", and "event" otherwise, a missing discriminator included.
C4_OneEntryPerEvent ==
    Answered200
        => LET h == resp.conversation_history
               events == RawEventsRead
           IN  /\ Len(h) = Len(events)
               /\ \A i \in 1..Len(events) :
                     LET has == "event" \in DOMAIN events[i] IN
                     /\ h[i].type \in {"user", "bot", "event"}
                     /\ h[i].type = "user" <=> (has /\ events[i]["event"] = "user")
                     /\ h[i].type = "bot" <=> (has /\ events[i]["event"] = "bot")
                     /\ "timestamp" \in DOMAIN events[i]
                           => h[i].timestamp = events[i]["timestamp"]
                     /\ "text" \in DOMAIN events[i] /\ h[i].type # "event"
                           => h[i].text = events[i]["text"]

C4_Witness ==
    /\ Answered200
    /\ Len(RawEventsRead) = MaxEvents
    /\ "event" \notin DOMAIN RawEventsRead[1]
    /\ RawEventsRead[2] = [event |-> "bot", text |-> "hi"]
    /\ resp.conversation_history[1].type = "event"
    /\ resp.conversation_history[2].type = "bot"

\* C5: the slots returned are the input entries whose key is not flow_hashes
\* and whose value is neither null nor the empty string, values unchanged;
\* no key is added and other falsy values such as 0 are kept.
C5_FilteredSlots ==
    Answered200
        => LET out == resp.slots
               slots == RawSlotsRead
           IN  /\ DOMAIN out \subseteq DOMAIN slots
               /\ "flow_hashes" \notin DOMAIN out
               /\ \A k \in DOMAIN out : out[k] = slots[k] /\ out[k] # JNull /\ out[k] # JStr("")
               /\ \A k \in DOMAIN slots :
                     (k # "flow_hashes" /\ slots[k] # JNull /\ slots[k] # JStr(""))
                        => k \in DOMAIN out

C5_Witness ==
    /\ Answered200
    /\ RawSlotsRead = [name |-> JNum(0), flow_hashes |-> JList]
    /\ resp.slots = [name |-> JNum(0)]

\* C8: get_tracker sends include_events unmodified as the include_events
\* query parameter when it is not empty ("ALL" when the caller gave none),
\* and sends no include_events parameter when it is the empty string.
C8_IncludeEventsParam ==
    InTracker
        => /\ Len(outbound) = 1
           /\ LET params == outbound[1].params
                  query == req.query
              IN  IF "include_events" \notin DOMAIN query
                  THEN DOMAIN params = {"include_events"} /\ params["include_events"] = "ALL"
                  ELSE IF query["include_events"] = ""
                  THEN DOMAIN params = {}
                  ELSE /\ DOMAIN params = {"include_events"}
                       /\ params["include_events"] = query["include_events"]

C8_Witness ==
    /\ InTracker /\ hpc = "done"
    /\ "include_events" \in DOMAIN req.query /\ req.query["include_events"] = ""
    /\ DOMAIN outbound[1].params = {}

====
